---- MODULE Spec2Model ----
(***************************************************************************)
(* Model of CAN/python/dev-tester/vscantester.py: the VSCAN device tester. *)
(* Bytes are their integer values; a bytes object is a sequence of them.   *)
(* main() is a sequential program; pc is its position, one action per      *)
(* statement group of main(), each including the UsbCan method it calls.   *)
(***************************************************************************)
EXTENDS Integers, Sequences, FiniteSets, TLC

\* ------------------------------------------------------------------ bounds
\* Largest number of devices serial.tools.list_ports reports.
MaxPorts == 2

\* ------------------------------------------------------- python primitives
None == [none |-> TRUE, bytes |-> <<>>]

Bytes(s) == [none |-> FALSE, bytes |-> s]

\* `not v` of Python is ~Truthy(v): None and b'' are both falsy.
Truthy(v) == ~v.none /\ v.bytes # <<>>

Norm(i, n) == IF i < 0 THEN (IF i + n < 0 THEN 0 ELSE i + n)
              ELSE (IF i > n THEN n ELSE i)

\* Python's s[a:b] (0-based, end-exclusive, negative indices from the end).
Slice(s, a, b) ==
    LET lo == Norm(a, Len(s))
        hi == Norm(b, Len(s))
    IN  IF lo >= hi THEN <<>> ELSE SubSeq(s, lo + 1, hi)

IsHexDigit(b) == (b >= 48 /\ b <= 57) \/ (b >= 65 /\ b <= 70) \/ (b >= 97 /\ b <= 102)

HexDigit(b) == IF b <= 57 THEN b - 48 ELSE IF b <= 70 THEN b - 55 ELSE b - 87

\* int(s, 16) for a bytes object of at most one byte (all main() passes):
\* ok = FALSE stands for the ValueError int() raises.
PyInt16(s) ==
    IF Len(s) = 1 /\ IsHexDigit(s[1])
    THEN [ok |-> TRUE, val |-> HexDigit(s[1])]
    ELSE [ok |-> FALSE, val |-> 0]

\* One printed line: the text and the values formatted into it.
Line(msg, arg) == [msg |-> msg, arg |-> arg]

Result(ret, exc, lines) == [ret |-> ret, exc |-> exc, out |-> lines]

VSCAN_OK == <<13>>

VSCAN_KO == <<7>>

\* ------------------------------------------------------------ environment
\* One exchange with the transport: the write raises (werr), the read raises
\* (rerr), or the read returns data (possibly fewer bytes than asked for).
NoIo == [st |-> "none", data |-> <<>>]

IoOutcomes(replies) ==
    {[st |-> "werr", data |-> <<>>], [st |-> "rerr", data |-> <<>>]}
    \cup {[st |-> "data", data |-> d] : d \in replies}

\* Replies framed by an echo byte and a terminator, cut to k payload bytes,
\* plus the empty read and the lone echo byte.
Frames(echo, payload, cuts) ==
    {<<h>> \o SubSeq(payload, 1, k) \o <<t>> :
        h \in {echo, 88}, k \in cuts, t \in {13, 10}}
    \cup {<<>>, <<echo>>}

\* "1234567890"
SerialDigits == <<49, 50, 51, 52, 53, 54, 55, 56, 57, 48>>

\* "1234", "1G34", "aF09"
VersionPayloads == {<<49, 50, 51, 52>>, <<49, 71, 51, 52>>, <<97, 70, 48, 57>>}

CloseReplies == {<<>>, <<13>>, <<7>>, <<88>>, <<78>>}

SerialReplies == Frames(78, SerialDigits, {0, 1, 8, 10})

VersionReplies == UNION {Frames(86, p, {0, 2, 4}) : p \in VersionPayloads}

DriverEnvs ==
    [lsmod : {"absent", "loaded", "notloaded"},
     uname : {"absent", "ok"},
     ko : BOOLEAN,
     builtin : {"missing", "listed", "notlisted"}]

NoEnv == [lsmod |-> "none", uname |-> "none", ko |-> FALSE, builtin |-> "none"]

\* ----------------------------------------------------------- UsbCan methods
\* UsbCan.close_can_channel
close_can_channel_ok_only(io) ==
    IF io.st = "werr" THEN Result(FALSE, "", <<Line("SerialException", <<>>)>>)
    ELSE IF io.st = "rerr" THEN Result(FALSE, "", <<Line("SerialException", <<>>)>>)
    ELSE IF io.data # VSCAN_OK THEN Result(FALSE, "", <<>>)
    ELSE Result(TRUE, "", <<>>)

close_can_channel(io) ==
    IF io.st = "werr" THEN Result(FALSE, "", <<Line("SerialException", <<>>)>>)
    ELSE IF io.st = "rerr" THEN Result(FALSE, "", <<Line("SerialException", <<>>)>>)
    ELSE IF io.data # VSCAN_KO /\ io.data # VSCAN_OK THEN Result(FALSE, "", <<>>)
    ELSE Result(TRUE, "", <<>>)

get_serial_number_no_first_check(io) ==
    IF io.st = "werr" THEN Result(None, "", <<Line("SerialException", <<>>)>>)
    ELSE IF io.st = "rerr" THEN Result(None, "SerialException", <<>>)
    ELSE LET buf == io.data IN
        IF Len(buf) = 0 THEN Result(None, "IndexError", <<>>)
        ELSE IF buf[Len(buf)] # 13
        THEN Result(None, "", <<Line("Wrong last character", <<buf[Len(buf)]>>)>>)
        ELSE Result(Bytes(Slice(buf, 1, Len(buf) - 2)), "", <<>>)

\* UsbCan.get_serial_number: the read is outside any try block, and buf[0]
\* of an empty read raises IndexError.
get_serial_number(io) ==
    IF io.st = "werr" THEN Result(None, "", <<Line("SerialException", <<>>)>>)
    ELSE IF io.st = "rerr" THEN Result(None, "SerialException", <<>>)
    ELSE LET buf == io.data IN
        IF Len(buf) = 0 THEN Result(None, "IndexError", <<>>)
        ELSE IF buf[1] # 78
        THEN Result(None, "", <<Line("Wrong first character", <<buf[1]>>)>>)
        ELSE IF buf[Len(buf)] # 13
        THEN Result(None, "", <<Line("Wrong last character", <<buf[Len(buf)]>>)>>)
        ELSE Result(Bytes(Slice(buf, 1, Len(buf) - 2)), "", <<>>)

get_version_info_no_last_check(io) ==
    IF io.st = "werr" THEN Result(None, "", <<Line("SerialException", <<>>)>>)
    ELSE IF io.st = "rerr" THEN Result(None, "SerialException", <<>>)
    ELSE LET buf == io.data IN
        IF Len(buf) = 0 THEN Result(None, "IndexError", <<>>)
        ELSE IF buf[1] # 86
        THEN Result(None, "", <<Line("Wrong first character", <<buf[1]>>)>>)
        ELSE Result(Bytes(Slice(buf, 1, Len(buf) - 1)), "", <<>>)

\* UsbCan.get_version_info
get_version_info(io) ==
    IF io.st = "werr" THEN Result(None, "", <<Line("SerialException", <<>>)>>)
    ELSE IF io.st = "rerr" THEN Result(None, "SerialException", <<>>)
    ELSE LET buf == io.data IN
        IF Len(buf) = 0 THEN Result(None, "IndexError", <<>>)
        ELSE IF buf[1] # 86
        THEN Result(None, "", <<Line("Wrong first character", <<buf[1]>>)>>)
        ELSE IF buf[Len(buf)] # 13
        THEN Result(None, "", <<Line("Wrong last character", <<buf[Len(buf)]>>)>>)
        ELSE Result(Bytes(Slice(buf, 1, Len(buf) - 1)), "", <<>>)

\* ------------------------------------------------------------ driver probe
\* check_lsmod: Popen raises FileNotFoundError when lsmod cannot be invoked.
check_lsmod(env) ==
    IF env.lsmod = "absent" THEN Result(FALSE, "FileNotFoundError", <<>>)
    ELSE Result(env.lsmod = "loaded", "", <<>>)

\* find_ftdi_driver: neither Popen nor open() is inside a try block.
find_ftdi_driver(env) ==
    LET ls == check_lsmod(env) IN
    IF ls.exc # "" THEN ls
    ELSE IF ls.ret THEN Result(TRUE, "", <<Line("ftdi_sio is loaded", <<>>)>>)
    ELSE IF env.uname = "absent" THEN Result(FALSE, "FileNotFoundError", <<>>)
    ELSE IF env.ko
    THEN Result(TRUE, "", <<Line("ftdi_sio could be found in /lib/modules", <<>>)>>)
    ELSE IF env.builtin = "missing" THEN Result(FALSE, "FileNotFoundError", <<>>)
    ELSE IF env.builtin = "listed"
    THEN Result(TRUE, "", <<Line("ftdi_sio is builtin", <<>>)>>)
    ELSE Result(FALSE, "", <<>>)

\* find_port: advisory lines only; desc is what list_ports reports.
find_port(port, desc) ==
    IF desc = "none" THEN <<>>
    ELSE IF desc = "good"
    THEN <<Line("Serial port found", <<port>>),
           Line("This device has a correct description", <<>>)>>
    ELSE <<Line("Serial port found", <<port>>),
           Line("Device description is wrong", <<>>)>>

\* UsbCan.lsof: Popen raises FileNotFoundError when lsof cannot be invoked.
lsof(port, st) ==
    IF st = "absent" THEN Result(FALSE, "FileNotFoundError", <<>>)
    ELSE IF st = "held" THEN Result(TRUE, "", <<Line("is already open", <<port>>)>>)
    ELSE Result(TRUE, "", <<>>)

\* main(), lines 241-244: the four int(..., 16) calls in source order.
decode_version(v) ==
    LET ver_major == PyInt16(Slice(v, 2, 3))
        ver_minor == PyInt16(Slice(v, 3, Len(v)))
        hw_major == PyInt16(Slice(v, 0, 1))
        hw_minor == PyInt16(Slice(v, 1, 2))
    IN  [ok |-> ver_major.ok /\ ver_minor.ok /\ hw_major.ok /\ hw_minor.ok,
         fw |-> <<ver_major.val, ver_minor.val>>,
         hw |-> <<hw_major.val, hw_minor.val>>]

\* The summary line: port, FW major:minor, HW major:minor, then the SN text.
Summary(port, sn, d) == Line("summary", <<port>> \o d.fw \o d.hw \o sn)

\* ------------------------------------------------------------------ state
VARIABLES
    pc,         \* position in main()
    linux,      \* sys.platform.startswith('linux')
    arg_all,    \* args.port == 'all'
    port_list,  \* main's port_list
    idx,        \* position of the for loop in port_list (0 before the loop)
    ser_port,   \* usbcan.ser_port: 0 for None, else the port it is open on
    open,       \* ports this process holds open
    opens,      \* per port, successful serial_for_url calls
    closes,     \* per port, ser_port.close() calls
    written,    \* per port, the commands passed to ser_port.write
    rx,         \* per command, the outcome of the exchange on the current port
    ser_num,    \* main's ser_num
    ver,        \* main's ver
    passed,     \* per port, how many of open/close/N/V main() accepted
    out,        \* the lines printed so far
    exit_code,  \* -1 while running, else the process exit status
    exc,        \* the uncaught exception that ended the process, "" if none
    probe       \* the driver probe: whether it ran, on what, and its result

vars == <<pc, linux, arg_all, port_list, idx, ser_port, open, opens, closes,
          written, rx, ser_num, ver, passed, out, exit_code, exc, probe>>

Ports == 1..MaxPorts

NoRx == [C |-> NoIo, N |-> NoIo, V |-> NoIo]

Init ==
    /\ pc = "enumerate"
    /\ linux \in BOOLEAN
    /\ arg_all \in BOOLEAN
    /\ port_list = <<>>
    /\ idx = 0
    /\ ser_port = 0
    /\ open = {}
    /\ opens = [p \in Ports |-> 0]
    /\ closes = [p \in Ports |-> 0]
    /\ written = [p \in Ports |-> <<>>]
    /\ rx = NoRx
    /\ ser_num = None
    /\ ver = None
    /\ passed = [p \in Ports |-> 0]
    /\ out = <<>>
    /\ exit_code = -1
    /\ exc = ""
    /\ probe = [ran |-> FALSE, env |-> NoEnv, ret |-> FALSE, exc |-> ""]

\* print(lines); sys.exit(1)
SysExit1_continue(lines) ==
    /\ pc' = "for"
    /\ out' = out \o lines
    /\ UNCHANGED <<exit_code, exc>>

SysExit1(lines) ==
    /\ pc' = "exit"
    /\ exit_code' = 1
    /\ out' = out \o lines
    /\ UNCHANGED exc

\* An exception nothing catches: the interpreter prints the traceback and
\* the process ends with status 1.
Raise(e, lines) ==
    /\ pc' = "exit"
    /\ exit_code' = 1
    /\ exc' = e
    /\ out' = out \o lines

cur == port_list[idx]

\* ----------------------------------------------------------------- main()
\* lines 204-213: build port_list.
Enumerate ==
    /\ pc = "enumerate"
    /\ IF arg_all
       THEN \E n \in 0..MaxPorts :
              /\ port_list' = [i \in 1..n |-> i]
              /\ IF n = 0
                 THEN /\ out' = Append(out, Line("No USB-CAN devices found", <<>>))
                      /\ pc' = IF linux THEN "driver" ELSE "for"
                 ELSE /\ pc' = "for"
                      /\ out' = out
       ELSE \E p \in Ports :
              /\ port_list' = <<p>>
              /\ pc' = "for"
              /\ out' = out
    /\ UNCHANGED <<linux, arg_all, idx, ser_port, open, opens, closes, written,
                   rx, ser_num, ver, passed, exit_code, exc, probe>>

\* lines 210-211: find_ftdi_driver() and the diagnostic.
DriverCheck ==
    /\ pc = "driver"
    /\ \E env \in DriverEnvs :
         LET r == find_ftdi_driver(env) IN
         /\ probe' = [ran |-> TRUE, env |-> env, ret |-> r.ret, exc |-> r.exc]
         /\ IF r.exc # ""
            THEN Raise(r.exc, r.out)
            ELSE /\ out' = out \o r.out \o
                        (IF r.ret THEN <<>>
                         ELSE <<Line("FTDI driver is not available", <<>>)>>)
                 /\ pc' = "for"
                 /\ UNCHANGED <<exit_code, exc>>
    /\ UNCHANGED <<linux, arg_all, port_list, idx, ser_port, open, opens,
                   closes, written, rx, ser_num, ver, passed>>

\* lines 215-216: next item of port_list and a new UsbCan, or the normal end
\* of main() (exit status 0).
ForNext ==
    /\ pc = "for"
    /\ IF idx < Len(port_list)
       THEN /\ idx' = idx + 1
            /\ ser_port' = 0
            /\ rx' = NoRx
            /\ ser_num' = None
            /\ ver' = None
            /\ pc' = "probe"
            /\ UNCHANGED exit_code
       ELSE /\ pc' = "exit"
            /\ exit_code' = 0
            /\ UNCHANGED <<idx, ser_port, rx, ser_num, ver>>
    /\ UNCHANGED <<linux, arg_all, port_list, open, opens, closes, written,
                   passed, out, exc, probe>>

\* lines 217-219: find_port and lsof, on Linux only.
ProbePort ==
    /\ pc = "probe"
    /\ IF linux
       THEN \E desc \in (IF arg_all THEN {"good", "bad"} ELSE {"none", "good", "bad"}),
               st \in {"absent", "free", "held"} :
              LET r == lsof(cur, st) IN
              IF r.exc # ""
              THEN Raise(r.exc, find_port(cur, desc))
              ELSE /\ out' = out \o find_port(cur, desc) \o r.out
                   /\ pc' = "init"
                   /\ UNCHANGED <<exit_code, exc>>
       ELSE /\ pc' = "init"
            /\ UNCHANGED <<out, exit_code, exc>>
    /\ UNCHANGED <<linux, arg_all, port_list, idx, ser_port, open, opens,
                   closes, written, rx, ser_num, ver, passed, probe>>

\* lines 221-223 with UsbCan.init_serial_port.
InitSerialPort ==
    /\ pc = "init"
    /\ \E ok \in BOOLEAN :
         IF ok
         THEN /\ ser_port' = cur
              /\ open' = open \cup {cur}
              /\ opens' = [opens EXCEPT ![cur] = @ + 1]
              /\ passed' = [passed EXCEPT ![cur] = 1]
              /\ pc' = "close_can"
              /\ UNCHANGED <<out, exit_code, exc>>
         ELSE /\ SysExit1(<<Line("SerialException", <<>>),
                            Line("Failed to open serial port", <<>>)>>)
              /\ UNCHANGED <<ser_port, open, opens, passed>>
    /\ UNCHANGED <<linux, arg_all, port_list, idx, closes, written, rx,
                   ser_num, ver, probe>>

\* lines 225-229 with UsbCan.close_can_channel.
CloseCanChannel ==
    /\ pc = "close_can"
    /\ \E io \in IoOutcomes(CloseReplies) :
         LET r == close_can_channel(io) IN
         /\ rx' = [rx EXCEPT !.C = io]
         /\ written' = [written EXCEPT ![cur] = Append(@, "C")]
         /\ IF ~r.ret
            THEN /\ SysExit1(r.out \o
                        <<Line("Failed to close the CAN channel", <<>>),
                          Line("The port could be opened but this device doesn't respond to the ASCII commands", <<>>)>>)
                 /\ UNCHANGED passed
            ELSE /\ out' = out \o r.out
                 /\ passed' = [passed EXCEPT ![cur] = 2]
                 /\ pc' = "serial"
                 /\ UNCHANGED <<exit_code, exc>>
    /\ UNCHANGED <<linux, arg_all, port_list, idx, ser_port, open, opens,
                   closes, ser_num, ver, probe>>

\* lines 231-234 with UsbCan.get_serial_number.
GetSerialNumber ==
    /\ pc = "serial"
    /\ \E io \in IoOutcomes(SerialReplies) :
         LET r == get_serial_number(io) IN
         /\ rx' = [rx EXCEPT !.N = io]
         /\ written' = [written EXCEPT ![cur] = Append(@, "N")]
         /\ IF r.exc # ""
            THEN /\ Raise(r.exc, r.out)
                 /\ UNCHANGED <<ser_num, passed>>
            ELSE /\ ser_num' = r.ret
                 /\ IF ~Truthy(r.ret)
                    THEN /\ SysExit1(r.out \o
                                <<Line("Failed to get the serial number", <<>>)>>)
                         /\ UNCHANGED passed
                    ELSE /\ out' = out \o r.out
                         /\ passed' = [passed EXCEPT ![cur] = 3]
                         /\ pc' = "version"
                         /\ UNCHANGED <<exit_code, exc>>
    /\ UNCHANGED <<linux, arg_all, port_list, idx, ser_port, open, opens,
                   closes, ver, probe>>

\* lines 236-239 with UsbCan.get_version_info.
GetVersionInfo ==
    /\ pc = "version"
    /\ \E io \in IoOutcomes(VersionReplies) :
         LET r == get_version_info(io) IN
         /\ rx' = [rx EXCEPT !.V = io]
         /\ written' = [written EXCEPT ![cur] = Append(@, "V")]
         /\ IF r.exc # ""
            THEN /\ Raise(r.exc, r.out)
                 /\ UNCHANGED <<ver, passed>>
            ELSE /\ ver' = r.ret
                 /\ IF ~Truthy(r.ret)
                    THEN /\ SysExit1(r.out \o
                                <<Line("Failed to get the firmware version", <<>>)>>)
                         /\ UNCHANGED passed
                    ELSE /\ out' = out \o r.out
                         /\ passed' = [passed EXCEPT ![cur] = 4]
                         /\ pc' = "report"
                         /\ UNCHANGED <<exit_code, exc>>
    /\ UNCHANGED <<linux, arg_all, port_list, idx, ser_port, open, opens,
                   closes, ser_num, probe>>

\* lines 241-248: decode the version and print the summary.
Report ==
    /\ pc = "report"
    /\ LET d == decode_version(ver.bytes) IN
       IF ~d.ok
       THEN Raise("ValueError", <<>>)
       ELSE IF \E i \in DOMAIN ser_num.bytes : ser_num.bytes[i] > 127
       THEN Raise("UnicodeDecodeError",
                  <<Line("Found VSCAN device with the following info:", <<>>)>>)
       ELSE /\ out' = out \o
                   <<Line("Found VSCAN device with the following info:", <<>>),
                     Summary(cur, ser_num.bytes, d)>>
            /\ pc' = "close"
            /\ UNCHANGED <<exit_code, exc>>
    /\ UNCHANGED <<linux, arg_all, port_list, idx, ser_port, open, opens,
                   closes, written, rx, ser_num, ver, passed, probe>>

\* line 250 with UsbCan.close.
ClosePort ==
    /\ pc = "close"
    /\ open' = open \ {ser_port}
    /\ closes' = [closes EXCEPT ![ser_port] = @ + 1]
    /\ pc' = "for"
    /\ UNCHANGED <<linux, arg_all, port_list, idx, ser_port, opens, written,
                   rx, ser_num, ver, passed, out, exit_code, exc, probe>>

Next ==
    \/ Enumerate
    \/ DriverCheck
    \/ ForNext
    \/ ProbePort
    \/ InitSerialPort
    \/ CloseCanChannel
    \/ GetSerialNumber
    \/ GetVersionInfo
    \/ Report
    \/ ClosePort

Spec == Init /\ [][Next]_vars

TypeOK ==
    /\ pc \in {"enumerate", "driver", "for", "probe", "init", "close_can",
               "serial", "version", "report", "close", "exit"}
    /\ idx \in 0..Len(port_list)
    /\ exit_code \in {-1, 0, 1}
    /\ (pc = "exit") = (exit_code # -1)

\* ------------------------------------------------------------- properties
HasLine(msg) == \E i \in DOMAIN out : out[i].msg = msg

CountLines(msg) == Cardinality({i \in DOMAIN out : out[i].msg = msg})

\* The summary lines printed for port p, and the SN text of summary line i.
SummaryOf(p) == {i \in DOMAIN out : out[i].msg = "summary" /\ out[i].arg[1] = p}

SummarySN(i) == SubSeq(out[i].arg, 6, Len(out[i].arg))

FailureLines == {"Failed to open serial port", "Failed to close the CAN channel",
                 "Failed to get the serial number", "Failed to get the firmware version"}

\* A reply of the full length n that starts with the echo byte and ends in CR.
GoodFrame(io, n, echo) ==
    io.st = "data" /\ Len(io.data) = n /\ io.data[1] = echo /\ io.data[n] = 13

\* A reply of the full length n with a wrong first or a wrong last byte.
BadFrame(io, n, echo) ==
    io.st = "data" /\ Len(io.data) = n /\ (io.data[1] # echo \/ io.data[n] # 13)

\* A reply of any length that passes the two framing checks of the parser.
PassesFraming(io, echo) ==
    io.st = "data" /\ Len(io.data) >= 1 /\ io.data[1] = echo
    /\ io.data[Len(io.data)] = 13

\* A write error, a read error, or a read shorter than the n bytes asked for.
TransportFailure(io, n) ==
    io.st \in {"werr", "rerr"} \/ (io.st = "data" /\ Len(io.data) < n)

\* C1: for a 12-byte reply 'N' + 10 bytes + CR, get_serial_number returns
\* exactly the 10 payload bytes (positions 1..10), and the summary line
\* shows that same 10-character serial number.
C1_SerialIsTenPayloadBytes ==
    (idx > 0 /\ GoodFrame(rx.N, 12, 78)) =>
        /\ ser_num = Bytes(SubSeq(rx.N.data, 2, 11))
        /\ \A i \in SummaryOf(cur) : SummarySN(i) = SubSeq(rx.N.data, 2, 11)

\* C2: a write error, read error or short read in the close-channel,
\* serial-number or version exchange is reported as a failure of that
\* command: the failure line is printed, the exit status is 1, no exception
\* goes unhandled, and no serial number or version is taken from the reply.
C2_TransportFailureIsCommandFailure ==
    idx > 0 =>
        /\ TransportFailure(rx.C, 1) =>
              /\ pc = "exit" /\ exit_code = 1 /\ exc = ""
              /\ HasLine("Failed to close the CAN channel")
        /\ TransportFailure(rx.N, 12) =>
              /\ pc = "exit" /\ exit_code = 1 /\ exc = ""
              /\ HasLine("Failed to get the serial number")
              /\ ser_num = None
        /\ TransportFailure(rx.V, 6) =>
              /\ pc = "exit" /\ exit_code = 1 /\ exc = ""
              /\ HasLine("Failed to get the firmware version")
              /\ ver = None

\* C3 as stated: a failing command only aborts that port's checks, so a run
\* in which a command failed still ends only after its loop has reached
\* every enumerated port.
C3_LaterPortsStillChecked ==
    (pc = "exit" /\ \E m \in FailureLines \ {"Failed to open serial port"} : HasLine(m))
        => idx = Len(port_list)

\* C3 amended: the run is fail-fast. A port is reached only after every
\* earlier port passed all four steps, printed its summary and was closed;
\* once a failure line is printed the process has exited with status 1; and
\* no port after the current one is ever opened or sent a command.
C3_FailFast ==
    /\ \A i \in DOMAIN port_list :
          /\ i < idx => /\ passed[port_list[i]] = 4
                        /\ SummaryOf(port_list[i]) # {}
                        /\ closes[port_list[i]] = 1
          /\ i > idx => /\ opens[port_list[i]] = 0
                        /\ written[port_list[i]] = <<>>
    /\ (\E m \in FailureLines : HasLine(m)) => (pc = "exit" /\ exit_code = 1)

C3_Witness ==
    /\ Len(port_list) >= 2 /\ idx = 1
    /\ pc = "exit" /\ exit_code = 1
    /\ HasLine("Failed to get the serial number")
    /\ opens[port_list[2]] = 0 /\ written[port_list[2]] = <<>>

\* C4: the exit status is 0 exactly when every targeted port passed open,
\* close-channel, get-serial-number and get-version (zero enumerated devices
\* included), and 1 otherwise.
C4_ExitCodeIffAllPassed ==
    pc = "exit" =>
        (exit_code = 0 <=> \A i \in DOMAIN port_list : passed[port_list[i]] = 4)

\* C5: for every 4-byte version payload, decoding either yields the four
\* components (and the summary) or a reported failure without summary; it
\* never ends in an unhandled exception.
C5_DecodeNeverCrashes ==
    (idx > 0 /\ Truthy(ver) /\ Len(ver.bytes) = 4
       /\ pc \in {"close", "for", "exit"}) =>
        /\ exc = ""
        /\ (SummaryOf(cur) # {}) = decode_version(ver.bytes).ok

\* The driver is found by one of the three checks that can be performed.
DriverAvailable(env) ==
    \/ env.lsmod = "loaded"
    \/ env.uname = "ok" /\ env.ko
    \/ env.uname = "ok" /\ env.builtin = "listed"

\* C6: find_ftdi_driver returns true iff one of the three checks succeeds,
\* a check that cannot be performed counts as failed, the program does not
\* crash, and "FTDI driver is not available" is printed exactly once when
\* all three fail.
C6_ProbeFallsThrough ==
    probe.ran =>
        /\ exc = ""
        /\ probe.ret = DriverAvailable(probe.env)
        /\ CountLines("FTDI driver is not available")
             = (IF DriverAvailable(probe.env) THEN 0 ELSE 1)

\* C7: at most one port is open at any time, and when the process has ended
\* every port that was opened has been closed exactly once.
C7_OpenedPortsClosedOnce ==
    /\ Cardinality(open) <= 1
    /\ pc = "exit" => /\ open = {}
                      /\ \A p \in Ports : opens[p] >= 1 => closes[p] = 1

\* C8: a full-length reply to 'N' (12 bytes) or 'V' (6 bytes) with a wrong
\* first or last byte is reported, yields None (no payload at all), and no
\* summary line is printed for that device.
C8_BadFramingYieldsNothing ==
    idx > 0 =>
        /\ BadFrame(rx.N, 12, 78) =>
              /\ ser_num = None
              /\ HasLine("Wrong first character") \/ HasLine("Wrong last character")
              /\ HasLine("Failed to get the serial number")
              /\ SummaryOf(cur) = {}
              /\ pc = "exit" /\ exit_code = 1
        /\ BadFrame(rx.V, 6, 86) =>
              /\ ver = None
              /\ HasLine("Wrong first character") \/ HasLine("Wrong last character")
              /\ HasLine("Failed to get the firmware version")
              /\ SummaryOf(cur) = {}
              /\ pc = "exit" /\ exit_code = 1

C8_Witness ==
    /\ idx > 0 /\ pc = "exit"
    /\ BadFrame(rx.V, 6, 86) /\ rx.V.data[1] = 86
    /\ ver = None

\* C9: for a single-byte reply, close_can_channel succeeds exactly when the
\* byte is CR or 0x07; after an accepted byte (0x07 included) the next
\* command is 'N'; after a rejected byte nothing more is written to the
\* port and the process exits with status 1.
C9_CloseAcceptsAckAndNak ==
    (idx > 0 /\ rx.C.st = "data" /\ Len(rx.C.data) = 1) =>
        IF rx.C.data[1] \in {13, 7}
        THEN /\ passed[cur] >= 2
             /\ ~HasLine("Failed to close the CAN channel")
             /\ \/ pc = "serial" /\ written[cur] = <<"C">>
                \/ Len(written[cur]) >= 2 /\ written[cur][2] = "N"
        ELSE /\ passed[cur] = 1
             /\ HasLine("Failed to close the CAN channel")
             /\ written[cur] = <<"C">>
             /\ pc = "exit" /\ exit_code = 1

C9_Witness ==
    /\ idx > 0
    /\ rx.C = [st |-> "data", data |-> <<7>>]
    /\ written[cur] = <<"C", "N">>

\* C10: the commands written to a port are a prefix of C, N, V, each at
\* most once; 'N' only after the close reply was accepted, 'V' only after a
\* serial-number reply passed both framing checks, and the summary line
\* (at most one per port) only after all three exchanges succeeded.
C10_CommandsArePrefixOfCNV ==
    /\ \A p \in Ports :
          /\ written[p] \in {<<>>, <<"C">>, <<"C", "N">>, <<"C", "N", "V">>}
          /\ Cardinality(SummaryOf(p)) <= 1
          /\ SummaryOf(p) # {} => (written[p] = <<"C", "N", "V">> /\ passed[p] = 4)
    /\ idx > 0 =>
          /\ Len(written[cur]) >= 2 =>
                (rx.C.st = "data" /\ rx.C.data \in {VSCAN_OK, VSCAN_KO})
          /\ Len(written[cur]) >= 3 => PassesFraming(rx.N, 78)
          /\ SummaryOf(cur) # {} =>
                (PassesFraming(rx.N, 78) /\ PassesFraming(rx.V, 86))

C10_Witness ==
    /\ idx > 0
    /\ written[cur] = <<"C", "N", "V">>
    /\ SummaryOf(cur) # {}
    /\ pc = "close"

====
